---- MODULE Spec2Model ----
(***************************************************************************)
(* The physics sandbox page (class Physics, src/unnamed/part_007): a pool  *)
(* of (mesh, body) pairs kept in step between a three.js scene graph and a *)
(* cannon-es world, driven by a requestAnimationFrame loop and by the      *)
(* buttons of the lil-gui panel built in DebugGuiService.createPhysicsGui. *)
(*                                                                         *)
(* JavaScript runs every callback to completion, so each handler           *)
(* (ngAfterViewInit, ngOnDestroy, a panel button, one animation frame) is  *)
(* one action.  A pooled object is named by the number of the spawn that   *)
(* created it; its mesh, its body and its pool entry share that number.    *)
(* Positions are triples <<x, y, z>> in tenths of a world unit.            *)
(*                                                                         *)
(* world.step is the physics engine: it leaves every dynamic body of the   *)
(* world in place or moves it to a member of Destinations.  The wind and   *)
(* vortex forces a tick applies only feed the next world.step, so that     *)
(* choice covers them.                                                     *)
(*                                                                         *)
(* Numbers keep the panel's resolution: timeScale, hurricaneSpeedFactor,   *)
(* gravity, friction and restitution in hundredths, the wind vector in     *)
(* tenths, the vortex strength in units, the raw frame time in             *)
(* milliseconds, forces in thousandths of a unit, impact velocities in     *)
(* tenths and mesh scales in hundredths.                                   *)
(*                                                                         *)
(* The module also holds the imported-models viewer (class ImportedModels, *)
(* src/unnamed/part_011) in the one variable viewer: its model loads are   *)
(* asynchronous and complete in actions of their own.                      *)
(***************************************************************************)
EXTENDS Integers, Sequences, FiniteSets, TLC

VARIABLES
    canvasPresent,    \* this.canvas()?.nativeElement is defined
    hook,             \* last Angular lifecycle hook called on the component
    gui,              \* this.gui: "none", "open" or "destroyed"
    objectsToUpdate,  \* this.objectsToUpdate, oldest entry first
    worldBodies,      \* this.world.bodies (floorBody and pooled bodies)
    sceneMeshes,      \* pooled meshes among this.scene.children
    listeners,        \* bodies that carry the 'collide' listener playHitSound
    bodyPos,          \* body.position of every body still referenced
    meshPos,          \* mesh.position of every mesh still referenced
    bodyQuat,         \* body.quaternion of every body still referenced
    meshQuat,         \* mesh.quaternion of every mesh still referenced
    meshScale,        \* mesh.scale of every mesh still referenced
    tweens,           \* gsap's running scale tweens, oldest first
    impacts,          \* contacts world.step has reported so far
    clonedMaterials,  \* per-object materials cloned at spawn, not disposed
    nextId,           \* number the next spawned object gets
    pendingFrames,    \* host frame queue: requested, not yet run or cancelled
    animationId,      \* this.animationId (0 while undefined)
    nextFrameId,      \* handle the next requestAnimationFrame returns
    ticks,            \* executions of this.tick so far
    consoleErrors,    \* console.error calls so far
    uncaught,         \* a handler ended by throwing
    simulation,       \* the simulation controls and the world's parameters
    panel,            \* the values the lil-gui panel holds and shows
    edits,            \* panel edits so far
    log,              \* what the last handler did (history, not program state)
    viewer            \* the fields of the ImportedModels component

\* the variables of the physics sandbox
sandbox ==
    <<canvasPresent, hook, gui, objectsToUpdate, worldBodies, sceneMeshes,
      listeners, bodyPos, meshPos, bodyQuat, meshQuat, meshScale, tweens,
      impacts, clonedMaterials, nextId, pendingFrames, animationId,
      nextFrameId, ticks, consoleErrors, uncaught, simulation, panel, edits,
      log>>

vars == <<sandbox, viewer>>

(***************************************************************************)
(* Bounds of the model.  The source sets maxObjects to 120                 *)
(* (part_007 line 80); the pool code only compares the pool length with    *)
(* it, so the model runs the same code with a small cap.                   *)
(***************************************************************************)
maxObjects == 3
MaxSpawns == 5
MaxTicks == 2
MaxEdits == 2
MaxImpacts == 2
MaxLoads == 3

\* killBounds (part_007 lines 81-84), in world units
yMin == -20
radiusMax == 40

floorBody == 0
undefined == -1

\* world.step(1 / 60, deltaTime, 3): the fixed step as the fraction
\* <<1, 60>> of a second, and the substep cap
fixedTimeStep == <<1, 60>>
maxSubSteps == 3

\* this.vortexRadius, in world units; no handler writes it
vortexRadius == 4

\* the field initialisers of the simulation controls (part_007 lines
\* 66-76); the world's gravity and the contact material's friction and
\* restitution do not exist before initPhysicsWorld
DefaultSimulation ==
    [timeScale |-> 100, windEnabled |-> FALSE, windVector |-> <<80, 0, 0>>,
     windUseNoise |-> FALSE, hurricaneEnabled |-> TRUE,
     hurricaneSpeedFactor |-> 100, vortexEnabled |-> FALSE,
     vortexStrength |-> 25, gravityY |-> undefined, friction |-> undefined,
     restitution |-> undefined]

\* initPhysicsWorld: gravity (0, -9.82, 0), friction 0.1, restitution 0.7
initPhysicsWorld(sim) ==
    [sim EXCEPT !.gravityY = -982, !.friction = 10, !.restitution = 70]

\* the values a slider of the panel can deliver (multiples of its step
\* within its range): the two ends of the time scale and its default, and
\* for every other slider its default and one other value
TimeScales == {5, 100, 200}
GravityYs == {-982, 0}
Frictions == {10, 100}
Restitutions == {70, 0}
WindComponents == {80, 0, -300}
HurricaneSpeeds == {100, 300}
VortexStrengths == {0, 25, 80}

\* the raw time between two frames, in milliseconds; the first tick reads
\* an elapsed time of 0
FrameDeltas == {16}
RawDeltas == 0..40

\* values of Math.sin and of Math.cos in hundredths: the two extremes.
\* The sine is taken of pos.x * 0.4 + t * 1.2 and the cosine of pos.z * 0.3
\* + t * 0.8, and pos.x and pos.z vary independently, so any sine goes with
\* any cosine
SineSamples == {-100, 100}
CosineSamples == {-100, 100}

\* n = Math.sin(..) * 0.5 + Math.cos(..) * 0.5, in hundredths
noiseValue(sine, cosine) == (sine * 50 + cosine * 50) \div 100

\* the values n takes on the samples
NoiseSamples ==
    {noiseValue(sine, cosine) : sine \in SineSamples, cosine \in CosineSamples}

ObjectIds == 1..MaxSpawns

\* the initial demo box is put at (0, 3, 0); the panel's spawn buttons put
\* an object at y = 3 with x and z random within [-1.5, 1.5], all well
\* inside the kill bounds
InitialBoxPosition == <<0, 30, 0>>
SpawnPositions == {<<-15, 30, 15>>}

\* where world.step may move a body: a point exactly on both kill bounds
\* (y = -20, radius 40), a point just inside both (y = -19.9, radius 39.9),
\* a point just below yMin, a point just beyond radiusMax
OnBounds == <<240, -200, 320>>
NearBounds == <<399, -199, 0>>
BelowYMin == <<0, -201, 0>>
BeyondRadius == <<401, 30, 0>>
Destinations == {OnBounds, NearBounds, BelowYMin, BeyondRadius}

\* mesh.scale.set(..) at spawn, in hundredths: a sphere of radius 1, a box
\* of 1 x 1 x 1
spawnScale == <<100, 100, 100>>

\* getImpactVelocityAlongNormal() in tenths: exactly the threshold 1.2 of
\* playHitSound, and just above it
ImpactVelocities == {12, 13}

\* orientations, as names of unit quaternions: the one a new mesh and a new
\* body have, and the one world.step leaves a body with that it moved
identity == 0
Tumbled == 1

\* positions for the force fields: on the vortex axis (the initial box's
\* place), inside the vortex radius at distance 2 on either side of the
\* axis, and exactly on the vortex radius at distance 4
OnAxis == InitialBoxPosition
InsideVortex == <<12, 30, 16>>
AcrossVortex == <<-16, 30, 12>>
OnVortexRadius == <<24, 5, 32>>
FieldPositions == {OnAxis, InsideVortex, AcrossVortex, OnVortexRadius}

Range(s) == {s[i] : i \in 1..Len(s)}

(***************************************************************************)
(* Array helpers with JavaScript's semantics (0-based indexes).            *)
(***************************************************************************)
indexOf(s, e) ==
    IF e \in Range(s)
    THEN (CHOOSE i \in 1..Len(s) : s[i] = e /\ \A j \in 1..(i - 1) : s[j] # e) - 1
    ELSE -1

\* s.splice(start, 1): a negative start counts from the end of the array
splice(s, start) ==
    LET from == IF start < 0
                THEN (IF Len(s) + start < 0 THEN 0 ELSE Len(s) + start)
                ELSE start
    IN IF from >= Len(s)
       THEN s
       ELSE SubSeq(s, 1, from) \o SubSeq(s, from + 2, Len(s))

\* s[i] of a JavaScript array
at(s, i) == IF i >= 0 /\ i < Len(s) THEN s[i + 1] ELSE undefined

(***************************************************************************)
(* The part of the state the pool helpers work on, as one record.          *)
(***************************************************************************)
Cur ==
    [pool |-> objectsToUpdate, world |-> worldBodies, scene |-> sceneMeshes,
     listeners |-> listeners, bodyPos |-> bodyPos, meshPos |-> meshPos,
     bodyQuat |-> bodyQuat, meshQuat |-> meshQuat, scale |-> meshScale,
     tweens |-> tweens, impacts |-> impacts, contacts |-> <<>>,
     collisions |-> <<>>,
     materials |-> clonedMaterials, evicted |-> <<>>, err |-> FALSE,
     trace |-> <<>>, steps |-> <<>>, applied |-> <<>>, turned |-> <<>>,
     sim |-> simulation]

Restrict(f, S) == [x \in (DOMAIN f) \cap S |-> f[x]]

\* positions of objects nothing refers to any more are forgotten, and so
\* are the tweens of their meshes, which no longer show
Referenced(st) == Range(st.pool) \cup st.world \cup st.scene

Install(st) ==
    /\ objectsToUpdate' = st.pool
    /\ worldBodies' = st.world
    /\ sceneMeshes' = st.scene
    /\ listeners' = st.listeners
    /\ bodyPos' = Restrict(st.bodyPos, Referenced(st))
    /\ meshPos' = Restrict(st.meshPos, Referenced(st))
    /\ bodyQuat' = Restrict(st.bodyQuat, Referenced(st))
    /\ meshQuat' = Restrict(st.meshQuat, Referenced(st))
    /\ meshScale' = Restrict(st.scale, Referenced(st))
    /\ tweens' = LET kept(t) == t.mesh \in Referenced(st)
                 IN SelectSeq(st.tweens, kept)
    /\ impacts' = st.impacts
    /\ clonedMaterials' = st.materials
    /\ uncaught' = (uncaught \/ st.err)
    /\ simulation' = st.sim
    /\ UNCHANGED viewer

\* removeObject without the index !== -1 test: splice(-1, 1) drops the last
\* entry of the list
removeObject_NoIndexGuard(st, entry) ==
    IF entry = undefined
    THEN [st EXCEPT !.err = TRUE]
    ELSE [st EXCEPT !.listeners = @ \ {entry},
                    !.world = @ \ {entry},
                    !.scene = @ \ {entry},
                    !.pool = splice(@, indexOf(st.pool, entry)),
                    !.evicted = IF entry \in Range(st.pool)
                                THEN Append(@, entry) ELSE @]

\* removeObject that leaves the mesh in the scene graph
removeObject_KeepsMesh(st, entry) ==
    IF entry = undefined
    THEN [st EXCEPT !.err = TRUE]
    ELSE LET index == indexOf(st.pool, entry)
             s1 == [st EXCEPT !.listeners = @ \ {entry},
                              !.world = @ \ {entry}]
         IN IF index # -1
            THEN [s1 EXCEPT !.pool = splice(@, index),
                            !.evicted = Append(@, entry)]
            ELSE s1

\* removeObject that leaves the 'collide' listener on the body
removeObject_KeepsListener(st, entry) ==
    IF entry = undefined
    THEN [st EXCEPT !.err = TRUE]
    ELSE LET index == indexOf(st.pool, entry)
             s1 == [st EXCEPT !.world = @ \ {entry},
                              !.scene = @ \ {entry}]
         IN IF index # -1
            THEN [s1 EXCEPT !.pool = splice(@, index),
                            !.evicted = Append(@, entry)]
            ELSE s1

(***************************************************************************)
(* removeObject(entry): detach the listener, remove the body from the      *)
(* world and the mesh from the scene (each a no-op in its library when the *)
(* target is absent), then splice the entry out of the list if it is       *)
(* there.  Reading entry.body of undefined throws.                         *)
(***************************************************************************)
removeObject(st, entry) ==
    IF entry = undefined
    THEN [st EXCEPT !.err = TRUE]
    ELSE LET index == indexOf(st.pool, entry)
             s1 == [st EXCEPT !.listeners = @ \ {entry},
                              !.world = @ \ {entry},
                              !.scene = @ \ {entry}]
         IN IF index # -1
            THEN [s1 EXCEPT !.pool = splice(@, index),
                            !.evicted = Append(@, entry)]
            ELSE s1

\* enforcePoolLimit with > in place of >=
enforcePoolLimit_OffByOne(st) ==
    IF Len(st.pool) > maxObjects
    THEN removeObject(st, at(st.pool, 0))
    ELSE st

\* enforcePoolLimit that evicts the newest entry
enforcePoolLimit_EvictsNewest(st) ==
    IF Len(st.pool) >= maxObjects
    THEN removeObject(st, at(st.pool, Len(st.pool) - 1))
    ELSE st

enforcePoolLimit(st) ==
    IF Len(st.pool) >= maxObjects
    THEN removeObject(st, at(st.pool, 0))
    ELSE st

(***************************************************************************)
(* createSphere / createBox: make room, clone the material, add the mesh   *)
(* at position, add the body at the same position with the collision       *)
(* listener, append the pair.  The two differ in geometry and shape only.  *)
(***************************************************************************)
\* a spawn whose body is built without the position option and so starts
\* at the origin
create_BodyAtOrigin(st, id, position) ==
    LET s1 == enforcePoolLimit(st)
    IN IF s1.err
       THEN s1
       ELSE [s1 EXCEPT !.materials = @ \cup {id},
                       !.scene = @ \cup {id},
                       !.meshPos = (id :> position) @@ @,
                       !.world = @ \cup {id},
                       !.bodyPos = (id :> <<0, 0, 0>>) @@ @,
                       !.meshQuat = (id :> identity) @@ @,
                       !.scale = (id :> spawnScale) @@ @,
                       !.bodyQuat = (id :> identity) @@ @,
                       !.listeners = @ \cup {id},
                       !.pool = Append(@, id)]

create(st, id, position) ==
    LET s1 == enforcePoolLimit(st)
    IN IF s1.err
       THEN s1
       ELSE [s1 EXCEPT !.materials = @ \cup {id},
                       !.scene = @ \cup {id},
                       !.meshPos = (id :> position) @@ @,
                       !.world = @ \cup {id},
                       !.bodyPos = (id :> position) @@ @,
                       !.meshQuat = (id :> identity) @@ @,
                       !.scale = (id :> spawnScale) @@ @,
                       !.bodyQuat = (id :> identity) @@ @,
                       !.listeners = @ \cup {id},
                       !.pool = Append(@, id)]

createSphere(st, id, position) == create(st, id, position)

createBox(st, id, position) == create(st, id, position)

\* for (const object of this.objectsToUpdate) this.removeObject(object): an
\* iterator at index k of an array that shrinks under it skips the entry
\* that slid into the freed slot
RECURSIVE removeEachLive(_, _)
removeEachLive(st, k) ==
    IF k >= Len(st.pool) \/ st.err
    THEN st
    ELSE removeEachLive(removeObject(st, at(st.pool, k)), k + 1)

\* the removal loop walking the live list instead of a copy
removeEach_LiveIteration(st, snapshot, i) == removeEachLive(st, 0)

(***************************************************************************)
(* for (const object of [...this.objectsToUpdate]) this.removeObject(object)*)
(* as in onReset and ngOnDestroy: the loop walks a copy of the list taken  *)
(* before the first removal.                                               *)
(***************************************************************************)
RECURSIVE removeEach(_, _, _)
removeEach(st, snapshot, i) ==
    IF i > Len(snapshot) \/ st.err
    THEN st
    ELSE removeEach(removeObject(st, snapshot[i]), snapshot, i + 1)

\* onReset walking the live list instead of a copy
onReset_LiveIteration(st) == removeEachLive(st, 0)

\* onReset that also puts the controls back to their initial values
onReset_RestoresDefaults(st) ==
    [removeEach(st, st.pool, 1) EXCEPT !.sim = initPhysicsWorld(DefaultSimulation)]

\* the "Reset world" button (initGui, onReset)
onReset(st) == removeEach(st, st.pool, 1)

(***************************************************************************)
(* The kill-zone test of tick.  Math.hypot(x, z) > radiusMax is decided on *)
(* the squares, both sides being non-negative.                             *)
(***************************************************************************)
horizontalRadiusExceeds(pos, r) == pos[1] * pos[1] + pos[3] * pos[3] > r * r

\* the kill-zone test with <= and >= in place of < and >
outOfBounds_Inclusive(pos) ==
    \/ pos[2] <= yMin * 10
    \/ pos[1] * pos[1] + pos[3] * pos[3] >= (radiusMax * 10) * (radiusMax * 10)

outOfBounds(pos) ==
    \/ pos[2] < yMin * 10
    \/ horizontalRadiusExceeds(pos, radiusMax * 10)

\* body.mass: 0 for the floor, 1 for every spawned sphere and box
mass(b) == IF b = floorBody THEN 0 ELSE 1

\* one more sub-step of the running handler, in execution order
Emit(st, kind, object) == [st EXCEPT !.trace = Append(@, <<kind, object>>)]

\* applyForce that sets the body's force instead of adding to it
applyForce_Overwrites(st, object, field, force) ==
    LET others(a) == a.body # object
    IN Emit([st EXCEPT !.applied = Append(SelectSeq(@, others),
                                          [body |-> object, field |-> field,
                                           force |-> force])],
            "applyForce", object)

\* object.body.applyForce(force, object.body.position): cannon-es adds
\* force to the body's accumulated force
applyForce(st, object, field, force) ==
    Emit([st EXCEPT !.applied = Append(@, [body |-> object, field |-> field,
                                           force |-> force])],
         "applyForce", object)

(***************************************************************************)
(* The wind force: a copy of windVector, scaled by 0.5 + n in noise mode,  *)
(* n being the value of sin(..) * 0.5 + cos(..) * 0.5 at the body.         *)
(***************************************************************************)
\* the noise factor with 1 in place of 0.5: 1 + n
windForce_UnitOffset(n) ==
    LET k == IF simulation.windUseNoise THEN 100 + n ELSE 100
    IN [a \in 1..3 |-> simulation.windVector[a] * k]

windForce(n) ==
    LET k == IF simulation.windUseNoise THEN 50 + n ELSE 100
    IN [a \in 1..3 |-> simulation.windVector[a] * k]

\* the wind branch of tick without the mass test
applyWind_NoMassTest(st, object, n) ==
    IF simulation.windEnabled
    THEN applyForce(st, object, "wind", windForce(n))
    ELSE st

\* the wind branch of tick scaling this.windVector itself instead of a copy
applyWind_ScalesInPlace(st, object, n) ==
    IF simulation.windEnabled /\ mass(object) > 0
    THEN applyForce([st EXCEPT !.sim.windVector =
                                   [a \in 1..3 |-> windForce(n)[a] \div 100]],
                    object, "wind", windForce(n))
    ELSE st

\* the wind branch of tick: the force is a new vector holding a copy of
\* this.windVector, and the scaling writes to that copy
applyWind(st, object, n) ==
    IF simulation.windEnabled /\ mass(object) > 0
    THEN applyForce(st, object, "wind", windForce(n))
    ELSE st

\* Math.hypot(x, z) of a point within the vortex radius, rounded down to a
\* tenth (exact for the members of FieldPositions)
hypot(x, z) ==
    CHOOSE d \in 0..(vortexRadius * 10) :
        d * d <= x * x + z * z /\ (d + 1) * (d + 1) > x * x + z * z

\* the vortex test with <= vortexRadius
inVortex_Inclusive(pos) ==
    LET sq == pos[1] * pos[1] + pos[3] * pos[3]
    IN sq >= 1 /\ sq <= (vortexRadius * 10) * (vortexRadius * 10)

\* distXZ > 0.0001 && distXZ < this.vortexRadius, decided on the squares:
\* 0.0001 of a unit is a thousandth of a tenth, and a point with whole
\* coordinates in tenths is farther than that from the axis unless it is
\* on it
inVortex(pos) ==
    LET sq == pos[1] * pos[1] + pos[3] * pos[3]
    IN sq >= 1 /\ sq < (vortexRadius * 10) * (vortexRadius * 10)

(***************************************************************************)
(* The vortex force at pos: (-radialZ * base, vortexStrength * 0.35 *      *)
(* strengthFactor, radialX * base) with radial = (x, z) / distXZ,          *)
(* strengthFactor = 1 - distXZ / vortexRadius and base = vortexStrength *  *)
(* strengthFactor.                                                         *)
(***************************************************************************)
\* the vortex force pushing along the radius instead of across it
vortexForce_Radial(pos) ==
    LET distXZ == hypot(pos[1], pos[3])
        R == vortexRadius * 10
        S == simulation.vortexStrength
        radial(c) == (c * S * (R - distXZ) * 1000) \div (distXZ * R)
    IN <<radial(pos[1]), (S * 35 * (R - distXZ) * 10) \div R, radial(pos[3])>>

vortexForce(pos) ==
    LET distXZ == hypot(pos[1], pos[3])
        R == vortexRadius * 10
        S == simulation.vortexStrength
        tangent(c) == (c * S * (R - distXZ) * 1000) \div (distXZ * R)
    IN <<0 - tangent(pos[3]), (S * 35 * (R - distXZ) * 10) \div R,
         tangent(pos[1])>>

\* the vortex branch of tick
applyVortex(st, object) ==
    IF simulation.vortexEnabled /\ mass(object) > 0
    THEN IF inVortex(st.bodyPos[object])
         THEN applyForce(st, object, "vortex", vortexForce(st.bodyPos[object]))
         ELSE st
    ELSE st

\* the sync of tick without the quaternion copy
sync_PositionOnly(st, object) ==
    Emit([st EXCEPT !.meshPos[object] = st.bodyPos[object]], "sync", object)

\* object.mesh.position.copy(object.body.position);
\* object.mesh.quaternion.copy(object.body.quaternion)
sync(st, object) ==
    Emit([st EXCEPT !.meshPos[object] = st.bodyPos[object],
                    !.meshQuat[object] = st.bodyQuat[object]],
         "sync", object)

\* the object pass doing the work of tick in three sweeps over the list:
\* every sync, then every kill-zone test, then every force
RECURSIVE phase(_, _, _, _, _)
phase(st, snapshot, i, noise, kind) ==
    IF i > Len(snapshot)
    THEN st
    ELSE LET object == snapshot[i]
             pos == st.bodyPos[object]
             done ==
                 IF kind = "sync"
                 THEN sync(st, object)
                 ELSE IF kind = "killCheck"
                 THEN IF outOfBounds(pos)
                      THEN Emit(removeObject(Emit(st, "killCheck", object), object),
                                "removeObject", object)
                      ELSE Emit(st, "killCheck", object)
                 ELSE IF object \in Range(st.pool)
                 THEN applyVortex(applyWind(st, object, noise[object]), object)
                 ELSE st
         IN phase(done, snapshot, i + 1, noise, kind)

objectPass_Phased(st, snapshot, i, noise) ==
    phase(phase(phase(st, snapshot, 1, noise, "sync"),
                snapshot, 1, noise, "killCheck"),
          snapshot, 1, noise, "force")

\* the object pass walking the live list by index: a removal shifts the
\* next entry into the slot the iterator has just left
RECURSIVE objectPassLive(_, _, _)
objectPassLive(st, k, noise) ==
    IF k >= Len(st.pool) \/ st.err
    THEN st
    ELSE LET object == at(st.pool, k)
             pos == st.bodyPos[object]
             synced == sync(st, object)
             checked == Emit(synced, "killCheck", object)
         IN IF outOfBounds(pos)
            THEN objectPassLive(Emit(removeObject(checked, object),
                                     "removeObject", object),
                                k + 1, noise)
            ELSE objectPassLive(applyVortex(applyWind(checked, object,
                                                      noise[object]),
                                            object),
                                k + 1, noise)

objectPass_LiveIteration(st, snapshot, i, noise) == objectPassLive(st, 0, noise)

(***************************************************************************)
(* The per-object pass of tick over [...this.objectsToUpdate]: copy the    *)
(* body's position to the mesh, then remove the object if it left the kill *)
(* bounds and go on to the next one, else apply the wind and the vortex    *)
(* to its body.                                                            *)
(***************************************************************************)
RECURSIVE objectPass(_, _, _, _)
objectPass(st, snapshot, i, noise) ==
    IF i > Len(snapshot) \/ st.err
    THEN st
    ELSE LET object == snapshot[i]
             pos == st.bodyPos[object]
             synced == sync(st, object)
             checked == Emit(synced, "killCheck", object)
         IN IF outOfBounds(pos)
            THEN objectPass(Emit(removeObject(checked, object),
                                 "removeObject", object),
                            snapshot, i + 1, noise)
            ELSE objectPass(applyVortex(applyWind(checked, object, noise[object]),
                                        object),
                            snapshot, i + 1, noise)

\* the dynamic bodies world.step integrates
DynamicBodies(st) == st.world \ {floorBody}

\* deltaTime without the time scale
scaledDelta_Unscaled(rawDeltaTime, timeScale) == rawDeltaTime * 100

\* deltaTime = rawDeltaTime * this.timeScale
scaledDelta(rawDeltaTime, timeScale) == rawDeltaTime * timeScale

(***************************************************************************)
(* gsap.fromTo(mesh.scale, {x: base.x * 1.15, y: base.y * 0.85, z: base.z  *)
(* * 1.15}, {x: base.x, y: base.y, z: base.z, duration: 0.18}) with base = *)
(* mesh.scale.clone(): the scale the mesh has when the call is made.  A    *)
(* fromTo tween renders its start values at once and runs until gsap's     *)
(* ticker has taken it to its end values.                                  *)
(***************************************************************************)
squash(st, mesh) ==
    LET baseScale == st.scale[mesh]
        from == <<(baseScale[1] * 115) \div 100, (baseScale[2] * 85) \div 100,
                  (baseScale[3] * 115) \div 100>>
    IN Emit([st EXCEPT !.scale[mesh] = from,
                       !.tweens = Append(@, [mesh |-> mesh, from |-> from,
                                             to |-> baseScale])],
            "gsap.fromTo", mesh)

(***************************************************************************)
(* playHitSound(collision).  cannon-es dispatches 'collide' on a body with *)
(* collision.target that body and collision.body the body it hit, so       *)
(* collision.body || collision.target is the body that was hit; the entry  *)
(* looked up is that body's, and there is none when it is the floor.       *)
(***************************************************************************)
playHitSound(st, collision) ==
    LET heard(sound, mesh) ==
            [target |-> collision.target, body |-> collision.body,
             impact |-> collision.impact, sound |-> sound, squashed |-> mesh]
    IN IF collision.impact > 12
       THEN LET played == Emit(st, "hitSound.play", collision.target)
                body == collision.body
                entry == IF body \in Range(st.pool) THEN body ELSE undefined
            IN IF entry = undefined
               THEN [played EXCEPT !.collisions = Append(@, heard(TRUE, undefined))]
               ELSE [squash(played, entry) EXCEPT
                         !.collisions = Append(@, heard(TRUE, entry))]
       ELSE [st EXCEPT !.collisions = Append(@, heard(FALSE, undefined))]

\* world.step on a contact that begins between bi and bj: the event goes to
\* bi with body = bj, then to bj with body = bi, and reaches the listener
\* of each body that carries one
dispatchCollide(st, contact) ==
    LET counted == [st EXCEPT !.impacts = @ + 1]
        first == IF contact.bi \in counted.listeners
                 THEN playHitSound(counted, [target |-> contact.bi,
                                             body |-> contact.bj,
                                             impact |-> contact.impact])
                 ELSE counted
    IN IF contact.bj \in first.listeners
       THEN playHitSound(first, [target |-> contact.bj, body |-> contact.bi,
                                 impact |-> contact.impact])
       ELSE first

RECURSIVE dispatchAll(_, _, _)
dispatchAll(st, contacts, i) ==
    IF i > Len(contacts)
    THEN st
    ELSE dispatchAll(dispatchCollide(st, contacts[i]), contacts, i + 1)

\* the contacts that may begin in one step: two different bodies of the
\* world, in either order, at an impact velocity of ImpactVelocities
Contacts(st) ==
    {c \in [bi : st.world, bj : st.world, impact : ImpactVelocities] :
        c.bi # c.bj}

\* what a call of the 'collide' listener playHitSound does: it returns,
\* or one of its statements throws
ListenerOutcomes == {"returns", "throws"}

(***************************************************************************)
(* world.step(1 / 60, deltaTime, 3) leaving every dynamic body at          *)
(* moved[b], tumbled if that is not where it was.  The step dispatches     *)
(* 'collide' to the listeners of the bodies in contact, from inside the    *)
(* call; neither playHitSound nor cannon-es nor tick has a try/catch, so a *)
(* listener that throws ends world.step and the handler that called it.    *)
(***************************************************************************)
worldStep(st, moved, deltaTime, listener) ==
    LET turned == [b \in DOMAIN st.bodyQuat |->
                      IF b \in DOMAIN moved /\ moved[b] # st.bodyPos[b]
                      THEN Tumbled ELSE st.bodyQuat[b]]
        stepped ==
            Emit([st EXCEPT !.bodyPos = [b \in DOMAIN st.bodyPos |->
                                            IF b \in DOMAIN moved THEN moved[b]
                                            ELSE st.bodyPos[b]],
                            !.bodyQuat = turned,
                            !.turned = turned,
                            !.steps = Append(@, [dt |-> fixedTimeStep,
                                                 timeSinceLastCalled |-> deltaTime,
                                                 maxSubSteps |-> maxSubSteps])],
                 "world.step", 0)
    IN IF listener = "throws" /\ st.listeners # {}
       THEN [Emit(stepped, "playHitSound throws", 0) EXCEPT !.err = TRUE]
       ELSE dispatchAll(stepped, st.contacts, 1)

\* the body of tick after its first line: scale the frame time, step the
\* world, pass over the objects, then updateHurricane, controls.update
\* and renderer.render
tickBody(st, moved, rawDeltaTime, noise, listener) ==
    LET scaled == Emit(st, "deltaTime", 0)
        stepped == worldStep(scaled, moved,
                             scaledDelta(rawDeltaTime, simulation.timeScale),
                             listener)
        passed == objectPass(stepped, stepped.pool, 1, noise)
    IN IF passed.err
       THEN passed
       ELSE Emit(Emit(Emit(passed, "updateHurricane", 0), "controls.update", 0),
                 "render", 0)

\* tick asking for the next frame as its last statement
tick_RequestsLast(st, moved, rawDeltaTime, noise, listener) ==
    Emit(tickBody(st, moved, rawDeltaTime, noise, listener),
         "requestAnimationFrame", 0)

\* tick: the request for the next frame is its first statement
tick(st, moved, rawDeltaTime, noise, listener) ==
    tickBody(Emit(st, "requestAnimationFrame", 0), moved, rawDeltaTime, noise,
             listener)

NoNoise(st) == [b \in DynamicBodies(st) |-> 0]

\* the noise value at every body; none is read while the wind or its
\* noise mode is off
Noises(st) ==
    IF simulation.windEnabled /\ simulation.windUseNoise
    THEN [DynamicBodies(st) -> NoiseSamples]
    ELSE {NoNoise(st)}

\* deltaTime = 0: the world does not advance
Unmoved(st) == Restrict(st.bodyPos, DynamicBodies(st))

\* the outcomes of one world.step: each dynamic body stays where it is
\* (asleep or at rest) or moves to one of Destinations
Moves(st) ==
    LET bodies == DynamicBodies(st) \cap DOMAIN st.bodyPos
    IN UNION {{[b \in bodies |-> IF b \in moving THEN to[b] ELSE st.bodyPos[b]] :
                  to \in [moving -> Destinations]} : moving \in SUBSET bodies}

(***************************************************************************)
(* The host's frame queue.                                                 *)
(***************************************************************************)
\* tick asking for two frames per execution
requestAnimationFrame_Twice(running) ==
    /\ pendingFrames' = (pendingFrames \ running) \cup {nextFrameId, nextFrameId + 1}
    /\ animationId' = nextFrameId + 1
    /\ nextFrameId' = nextFrameId + 2

\* this.animationId = requestAnimationFrame(this.tick), the callback that
\* is running having left the queue
requestAnimationFrame(running) ==
    /\ pendingFrames' = (pendingFrames \ running) \cup {nextFrameId}
    /\ animationId' = nextFrameId
    /\ nextFrameId' = nextFrameId + 1

\* ngOnDestroy that leaves the requested frame in the queue
cancelAnimationFrame_Omitted == pendingFrames' = pendingFrames

\* cancelAnimationFrame(this.animationId ?? 0); no request has handle 0
cancelAnimationFrame == pendingFrames' = pendingFrames \ {animationId}

(***************************************************************************)
(* The record a handler leaves in log.                                     *)
(***************************************************************************)
Entry(op, arg, st, stepped) ==
    [op |-> op, arg |-> arg, evicted |-> st.evicted, stepped |-> stepped,
     repeat |-> (log.op = op /\ log.arg = arg), trace |-> st.trace,
     steps |-> st.steps, applied |-> st.applied, turned |-> st.turned,
     collisions |-> st.collisions]

NoStep == <<>>

(***************************************************************************)
(* The imported-models viewer (component ImportedModels): one model at a   *)
(* time, loaded by GLTFLoader, with a debug panel built when the load      *)
(* completes.  A load, its model and the panel built for it share the      *)
(* load's number.                                                          *)
(***************************************************************************)
\* keys of modelsConfig: two models without animations and the animated one
ModelKeys == {"duck-gltf", "duck-draco", "fox-animated"}

\* gltf.animations.length > 0
animated(key) == key = "fox-animated"

\* the fields of a new ImportedModels, with what it has put into the scene,
\* the panels lil-gui holds, the loads in flight and the frame it has
\* requested
NewViewer ==
    [hook |-> "constructed", currentModelKey |-> "fox-animated",
     gui |-> undefined, currentModel |-> undefined, mixer |-> undefined,
     panels |-> {}, sceneModels |-> {}, loads |-> {}, nextLoad |-> 1,
     frameRequested |-> FALSE, frames |-> 0, consoleErrors |-> 0]

\* the onLoad callback loadModel hands to gltfLoader.load: keep the model,
\* add it to the scene, build a mixer if it has animations, build the
\* panel
onLoad(v, load) ==
    [v EXCEPT !.loads = @ \ {load},
              !.currentModel = load.id,
              !.sceneModels = @ \cup {load.id},
              !.mixer = IF animated(load.key) THEN load.id ELSE @,
              !.gui = load.id,
              !.panels = @ \cup {load.id}]

\* the onError callback: console.error
onError(v, load) ==
    [v EXCEPT !.loads = @ \ {load}, !.consoleErrors = @ + 1]

\* loadModel(key) for a key of modelsConfig: destroy and forget the panel,
\* take the current model out of the scene and forget it, forget the
\* mixer, start the load
loadModel(v, key) ==
    [v EXCEPT !.currentModelKey = key,
              !.panels = @ \ {v.gui},
              !.gui = undefined,
              !.sceneModels = @ \ {v.currentModel},
              !.currentModel = undefined,
              !.mixer = undefined,
              !.loads = @ \cup {[id |-> v.nextLoad, key |-> key]},
              !.nextLoad = @ + 1]

(***************************************************************************)
(* The state after construction: field initialisers only.                  *)
(***************************************************************************)
Init ==
    /\ canvasPresent \in BOOLEAN
    /\ hook = "constructed"
    /\ gui = "none"
    /\ objectsToUpdate = <<>>
    /\ worldBodies = {}
    /\ sceneMeshes = {}
    /\ listeners = {}
    /\ bodyPos = <<>>
    /\ meshPos = <<>>
    /\ bodyQuat = <<>>
    /\ meshQuat = <<>>
    /\ meshScale = <<>>
    /\ tweens = <<>>
    /\ impacts = 0
    /\ clonedMaterials = {}
    /\ nextId = 1
    /\ pendingFrames = {}
    /\ animationId = 0
    /\ nextFrameId = 1
    /\ ticks = 0
    /\ consoleErrors = 0
    /\ uncaught = FALSE
    /\ simulation = DefaultSimulation
    /\ panel = <<>>
    /\ edits = 0
    /\ log = [op |-> "new", arg |-> 0, evicted |-> <<>>, stepped |-> NoStep,
              repeat |-> FALSE, trace |-> <<>>, steps |-> <<>>,
              applied |-> <<>>, turned |-> <<>>, collisions |-> <<>>]
    /\ viewer = NewViewer

(***************************************************************************)
(* The panel as createPhysicsGui builds it: gravity, friction and          *)
(* restitution are read from the world and the contact material, the other *)
(* values are literals of the service.                                     *)
(***************************************************************************)
createPhysicsGui(sim) ==
    [gravityY |-> sim.gravityY, friction |-> sim.friction,
     restitution |-> sim.restitution, timeScale |-> 100,
     windEnabled |-> FALSE, windX |-> 80, windY |-> 0, windZ |-> 0,
     useNoise |-> FALSE, hurricaneEnabled |-> TRUE, hurricaneSpeed |-> 100,
     vortexEnabled |-> FALSE, vortexStrength |-> 25]

\* this.scene.add with optional chaining: a missing scene is skipped
sceneAddThrows_Guarded(sceneBuilt) == FALSE

\* this.scene.add(..) in initFloor: this.scene is undefined when initThree
\* returned early, and the call throws a TypeError
sceneAddThrows(sceneBuilt) == ~ sceneBuilt

(***************************************************************************)
(* ngAfterViewInit.  Without a canvas initThree logs and returns, leaving  *)
(* this.scene unset; initPhysicsWorld still builds the world and its       *)
(* floor; initFloor then throws on this.scene.add and the hook ends there. *)
(* With a canvas: the world with its floor, the panel, the initial demo    *)
(* box, and the first call of tick (elapsed time 0, so the world does not  *)
(* move).                                                                  *)
(***************************************************************************)
NgAfterViewInit ==
    /\ hook = "constructed"
    /\ hook' = "viewInit"
    /\ consoleErrors' = IF canvasPresent THEN consoleErrors ELSE consoleErrors + 1
    /\ IF sceneAddThrows(canvasPresent)
       THEN /\ Install([Cur EXCEPT !.world = {floorBody}, !.err = TRUE,
                                   !.sim = initPhysicsWorld(simulation)])
            /\ log' = Entry("ngAfterViewInit", 0, Cur, NoStep)
            /\ UNCHANGED <<gui, panel, nextId, pendingFrames, animationId,
                           nextFrameId, ticks>>
       ELSE LET world == [Cur EXCEPT !.world = {floorBody},
                                     !.sim = initPhysicsWorld(simulation)]
                box == createBox(world, nextId, InitialBoxPosition)
                after == tick(box, Unmoved(box), 0, NoNoise(box), "returns")
            IN /\ gui' = "open"
               /\ panel' = createPhysicsGui(world.sim)
               /\ nextId' = nextId + 1
               /\ requestAnimationFrame({})
               /\ ticks' = ticks + 1
               /\ Install(after)
               /\ log' = Entry("ngAfterViewInit", 0, after, Unmoved(box))
    /\ UNCHANGED <<canvasPresent, edits>>

(***************************************************************************)
(* The panel's "Create sphere" and "Create box" buttons.                   *)
(***************************************************************************)
OnCreateSphere ==
    /\ gui = "open"
    /\ nextId <= MaxSpawns
    /\ \E position \in SpawnPositions :
          LET after == createSphere(Cur, nextId, position)
          IN /\ Install(after)
             /\ log' = Entry("createSphere", 0, after, NoStep)
    /\ nextId' = nextId + 1
    /\ UNCHANGED <<canvasPresent, hook, gui, pendingFrames, animationId,
                   nextFrameId, ticks, consoleErrors, panel,
                   edits>>

OnCreateBox ==
    /\ gui = "open"
    /\ nextId <= MaxSpawns
    /\ \E position \in SpawnPositions :
          LET after == createBox(Cur, nextId, position)
          IN /\ Install(after)
             /\ log' = Entry("createBox", 0, after, NoStep)
    /\ nextId' = nextId + 1
    /\ UNCHANGED <<canvasPresent, hook, gui, pendingFrames, animationId,
                   nextFrameId, ticks, consoleErrors, panel,
                   edits>>

\* the panel's "Reset world" button
OnReset ==
    /\ gui = "open"
    /\ LET after == onReset(Cur)
       IN /\ Install(after)
          /\ log' = Entry("reset", 0, after, NoStep)
    /\ UNCHANGED <<canvasPresent, hook, gui, nextId, pendingFrames,
                   animationId, nextFrameId, ticks, consoleErrors,
                   panel, edits>>

(***************************************************************************)
(* The host runs a requested frame: tick asks for the next frame, steps    *)
(* the world, passes over the objects and renders.                         *)
(***************************************************************************)
Frame(listener) ==
    /\ ticks < MaxTicks
    /\ \E frame \in pendingFrames :
          /\ requestAnimationFrame({frame})
          /\ \E moved \in Moves(Cur), rawDeltaTime \in FrameDeltas,
                noise \in Noises(Cur) :
                LET after == tick(Cur, moved, rawDeltaTime, noise, listener)
                IN /\ Install(after)
                   /\ log' = Entry("tick", rawDeltaTime, after, moved)
    /\ ticks' = ticks + 1
    /\ UNCHANGED <<canvasPresent, hook, gui, nextId, consoleErrors,
                   panel, edits>>

\* a frame in which every collision listener returns
Tick == Frame("returns")

(***************************************************************************)
(* ngOnDestroy: cancel the requested frame, destroy the panel, remove      *)
(* every pooled object.  Angular calls it once, and no other hook after.   *)
(***************************************************************************)
NgOnDestroy ==
    /\ hook # "destroyed"
    /\ hook' = "destroyed"
    /\ cancelAnimationFrame
    /\ gui' = IF gui = "open" THEN "destroyed" ELSE gui
    /\ LET after == removeEach(Cur, objectsToUpdate, 1)
       IN /\ Install(after)
          /\ log' = Entry("ngOnDestroy", 0, after, NoStep)
    /\ UNCHANGED <<canvasPresent, nextId, animationId, nextFrameId, ticks,
                   consoleErrors, panel, edits>>

(***************************************************************************)
(* The callbacks initGui hands to the panel.                               *)
(***************************************************************************)
onTimeScaleChange(sim, value) == [sim EXCEPT !.timeScale = value]

onToggleWind(sim, enabled) == [sim EXCEPT !.windEnabled = enabled]

\* a wind callback that takes over the x component only
onWindVectorChange_XOnly(sim, vec) ==
    [sim EXCEPT !.windVector = <<vec.x, @[2], @[3]>>]

\* this.windVector.set(vec.x, vec.y, vec.z)
onWindVectorChange(sim, vec) ==
    [sim EXCEPT !.windVector = <<vec.x, vec.y, vec.z>>]

onWindNoiseToggle(sim, enabled) == [sim EXCEPT !.windUseNoise = enabled]

onToggleHurricane(sim, enabled) == [sim EXCEPT !.hurricaneEnabled = enabled]

onHurricaneSpeedChange(sim, value) == [sim EXCEPT !.hurricaneSpeedFactor = value]

onToggleVortex(sim, enabled) == [sim EXCEPT !.vortexEnabled = enabled]

onVortexStrengthChange(sim, value) == [sim EXCEPT !.vortexStrength = value]

\* emitWindVector of createPhysicsGui: the three wind values of the panel
emitWindVector(p) == [x |-> p.windX, y |-> p.windY, z |-> p.windZ]

(***************************************************************************)
(* One edit in the panel: lil-gui stores the new value in the panel's      *)
(* parameter object (p) and calls the controller's onChange, which leaves  *)
(* the simulation as sim.                                                  *)
(***************************************************************************)
PanelEdit(p, sim, name, value) ==
    /\ gui = "open"
    /\ edits < MaxEdits
    /\ p # panel
    /\ edits' = edits + 1
    /\ panel' = p
    /\ simulation' = sim
    /\ log' = Entry(name, value, Cur, NoStep)
    /\ UNCHANGED <<canvasPresent, hook, gui, objectsToUpdate, worldBodies,
                   sceneMeshes, listeners, bodyPos, meshPos, bodyQuat,
                   meshQuat, meshScale, tweens, impacts, clonedMaterials, viewer,
                   nextId, pendingFrames, animationId, nextFrameId, ticks,
                   consoleErrors, uncaught>>

\* config.world.gravity.set(0, value, 0)
GravityYChange ==
    \E value \in GravityYs :
        PanelEdit([panel EXCEPT !.gravityY = value],
                  [simulation EXCEPT !.gravityY = value], "gravityY", value)

FrictionChange ==
    \E value \in Frictions :
        PanelEdit([panel EXCEPT !.friction = value],
                  [simulation EXCEPT !.friction = value], "friction", value)

RestitutionChange ==
    \E value \in Restitutions :
        PanelEdit([panel EXCEPT !.restitution = value],
                  [simulation EXCEPT !.restitution = value], "restitution", value)

TimeScaleChange ==
    \E value \in TimeScales :
        PanelEdit([panel EXCEPT !.timeScale = value],
                  onTimeScaleChange(simulation, value), "timeScale", value)

ToggleWind ==
    LET value == ~ panel.windEnabled
    IN PanelEdit([panel EXCEPT !.windEnabled = value],
                 onToggleWind(simulation, value), "windEnabled", 0)

\* the Wind X, Wind Y and Wind Z sliders share emitWindVector
WindVectorChange ==
    \E axis \in {"windX", "windY", "windZ"}, value \in WindComponents :
        LET p == [panel EXCEPT ![axis] = value]
        IN PanelEdit(p, onWindVectorChange(simulation, emitWindVector(p)),
                     axis, value)

WindNoiseToggle ==
    LET value == ~ panel.useNoise
    IN PanelEdit([panel EXCEPT !.useNoise = value],
                 onWindNoiseToggle(simulation, value), "useNoise", 0)

ToggleHurricane ==
    LET value == ~ panel.hurricaneEnabled
    IN PanelEdit([panel EXCEPT !.hurricaneEnabled = value],
                 onToggleHurricane(simulation, value), "hurricaneEnabled", 0)

HurricaneSpeedChange ==
    \E value \in HurricaneSpeeds :
        PanelEdit([panel EXCEPT !.hurricaneSpeed = value],
                  onHurricaneSpeedChange(simulation, value),
                  "hurricaneSpeed", value)

ToggleVortex ==
    LET value == ~ panel.vortexEnabled
    IN PanelEdit([panel EXCEPT !.vortexEnabled = value],
                 onToggleVortex(simulation, value), "vortexEnabled", 0)

VortexStrengthChange ==
    \E value \in VortexStrengths :
        PanelEdit([panel EXCEPT !.vortexStrength = value],
                  onVortexStrengthChange(simulation, value),
                  "vortexStrength", value)

Next ==
    \/ NgAfterViewInit
    \/ OnCreateSphere
    \/ OnCreateBox
    \/ OnReset
    \/ Tick
    \/ NgOnDestroy

Spec == Init /\ [][Next]_vars

(***************************************************************************)
(* The loop state of the simulation: Running while the host holds a        *)
(* requested frame, Disposed once the component is destroyed and nothing   *)
(* is requested, Idle otherwise.                                           *)
(***************************************************************************)
LoopState ==
    IF pendingFrames # {} THEN "Running"
    ELSE IF hook = "destroyed" THEN "Disposed"
    ELSE "Idle"

SpawnOps == {"createSphere", "createBox"}

Spawned == 1..(nextId - 1)

\* C1: the pool list never holds more than maxObjects entries.
C1_PoolBound == Len(objectsToUpdate) <= maxObjects

\* a panel spawn at capacity has just evicted an entry and left a full pool
C1_SpawnAtCapacity ==
    /\ log.op \in SpawnOps
    /\ Len(log.evicted) = 1
    /\ Len(objectsToUpdate) = maxObjects

\* C2: a panel spawn into a pool of exactly maxObjects entries evicts
\* exactly the head of the list, which is the earliest-spawned entry alive
\* (the list is in spawn order), appends the new entry and leaves
\* maxObjects entries; a spawn into a smaller pool evicts nothing and
\* appends.
C2_SpawnEvictsOldest ==
    [][log'.op \in SpawnOps =>
          /\ \A i, j \in 1..Len(objectsToUpdate) :
                i < j => objectsToUpdate[i] < objectsToUpdate[j]
          /\ IF Len(objectsToUpdate) = maxObjects
             THEN /\ log'.evicted = <<Head(objectsToUpdate)>>
                  /\ \A e \in Range(objectsToUpdate) : Head(objectsToUpdate) <= e
                  /\ objectsToUpdate' = Append(Tail(objectsToUpdate), nextId)
                  /\ Len(objectsToUpdate') = maxObjects
             ELSE /\ Len(objectsToUpdate) < maxObjects
                  /\ log'.evicted = <<>>
                  /\ objectsToUpdate' = Append(objectsToUpdate, nextId)]_vars

\* a spawn at capacity took the head although a younger entry had left the
\* list before it (the kill zone removed one out of spawn order)
C2_HeadEvictedAfterKillZoneGap ==
    /\ log.op \in SpawnOps
    /\ Len(log.evicted) = 1
    /\ Len(objectsToUpdate) = maxObjects
    /\ Head(objectsToUpdate) > log.evicted[1] + 1

\* C3: for every simulated object, mesh in the scene graph, body in the
\* physics world and entry in the pool list hold together or not at all.
C3_Pairing ==
    \A o \in ObjectIds :
        /\ (o \in sceneMeshes) = (o \in worldBodies)
        /\ (o \in worldBodies) = (o \in Range(objectsToUpdate))

\* some object has been removed while another stays registered
C3_OneGoneOneRegistered ==
    /\ log.evicted # <<>>
    /\ objectsToUpdate # <<>>
    /\ \E o \in Range(objectsToUpdate) : o \in sceneMeshes /\ o \in worldBodies

\* inside the kill zone: y >= -20 and horizontal radius <= 40 world units
InsideKillZone(pos) ==
    /\ pos[2] >= -200
    /\ pos[1] * pos[1] + pos[3] * pos[3] <= 400 * 400

\* C4: the entries that survive a tick are exactly the entries live at its
\* start whose position after the physics step has y >= yMin and
\* horizontal radius <= radiusMax, in the same order.  The tick that
\* ngAfterViewInit calls starts with the initial box alone.
C4_KillZoneSweep ==
    [][(log'.op = "tick" \/ (log'.op = "ngAfterViewInit" /\ canvasPresent)) =>
          LET survives(e) == InsideKillZone(log'.stepped[e])
              atStart == IF log'.op = "tick" THEN objectsToUpdate ELSE <<nextId>>
          IN /\ objectsToUpdate' = SelectSeq(atStart, survives)
             /\ \A e \in Range(objectsToUpdate') : bodyPos'[e] = log'.stepped[e]]_vars

\* one tick evicted an object and kept one that sits exactly on both bounds
C4_EvictedAndOnBoundKept ==
    /\ log.op = "tick"
    /\ log.evicted # <<>>
    /\ \E e \in Range(objectsToUpdate) : bodyPos[e] = OnBounds

\* C5: once ngOnDestroy has run no frame is requested and no tick runs, and
\* the loop state only moves forward along Idle, Running, Disposed.
C5_NoTickAfterTeardown ==
    [][/\ hook' = "destroyed" => pendingFrames' = {} /\ LoopState' = "Disposed"
       /\ hook = "destroyed" => ticks' = ticks
       /\ LoopState = "Running" => LoopState' \in {"Running", "Disposed"}
       /\ LoopState = "Disposed" => LoopState' = "Disposed"]_vars

\* teardown between two ticks of a running loop
C5_TornDownWhileRunning ==
    /\ hook = "destroyed"
    /\ ticks >= 2
    /\ animationId # 0

\* C6: ngOnDestroy leaves the pool empty and every object that was pooled
\* out of the world, out of the scene and without its collision listener.
C6_TeardownReleasesPool ==
    [][log'.op = "ngOnDestroy" =>
          /\ objectsToUpdate' = <<>>
          /\ \A e \in Range(objectsToUpdate) :
                /\ e \notin worldBodies'
                /\ e \notin listeners'
                /\ e \notin sceneMeshes']_vars

\* teardown of a pool of several objects
C6_TornDownSeveral ==
    /\ log.op = "ngOnDestroy"
    /\ Len(log.evicted) >= 2

\* C7: a body carries the collision listener exactly while its entry is in
\* the pool.
C7_ListenerIffPooled ==
    \A b \in ObjectIds \cup {floorBody} :
        (b \in listeners) = (b \in Range(objectsToUpdate))

\* the kill zone has removed a body and another body is still pooled
C7_KillZoneDetached ==
    /\ log.op = "tick"
    /\ log.evicted # <<>>
    /\ listeners # {}
    /\ \A b \in Range(log.evicted) : b \notin listeners

\* C9: "Reset world" leaves the pool empty and every object that was pooled
\* out of the scene and out of the world, without throwing, on an empty
\* pool as well.
C9_ResetEmptiesPool ==
    [][log'.op = "reset" =>
          /\ objectsToUpdate' = <<>>
          /\ \A e \in Range(objectsToUpdate) :
                e \notin sceneMeshes' /\ e \notin worldBodies'
          /\ ~ uncaught']_vars

\* a second reset right after a reset
C9_ResetTwice ==
    /\ log.op = "reset"
    /\ log.repeat
    /\ Spawned # {}

\* C10: the host never holds more than one requested frame, and while the
\* loop runs the one it holds is this.animationId.
C10_OneFramePending ==
    /\ Cardinality(pendingFrames) <= 1
    /\ LoopState = "Running" => pendingFrames = {animationId}

\* a frame callback has run and the next frame is requested
C10_FrameRequestedByFrame ==
    /\ log.op = "tick"
    /\ ticks >= 2
    /\ Cardinality(pendingFrames) = 1

\* C11: without a canvas element ngAfterViewInit reports one console
\* error and the loop is never entered: no frame is ever requested, tick
\* never runs, no panel is built, and the setup is not tried again.
C11_NoLoopWithoutCanvas ==
    ~ canvasPresent =>
        /\ ticks = 0
        /\ pendingFrames = {}
        /\ animationId = 0
        /\ gui = "none"
        /\ consoleErrors <= 1
        /\ hook = "viewInit" => consoleErrors = 1 /\ uncaught

\* the component was set up without a canvas and later destroyed
C11_FailedSetupThenDestroyed ==
    /\ ~ canvasPresent
    /\ consoleErrors = 1
    /\ uncaught
    /\ hook = "destroyed"

\* C17: while the loop is running the panel with its spawn buttons is
\* open, and a spawn, whatever the pool holds, does not throw and leaves
\* the new object as the last entry of the pool, its mesh in the scene,
\* its body in the world at the mesh's position, and the collision
\* listener on its body (a listener set holds each listener once).
C17_SpawnSucceeds ==
    [][/\ LoopState = "Running" => gui = "open"
       /\ log'.op \in SpawnOps =>
             /\ ~ uncaught'
             /\ nextId \notin Range(objectsToUpdate)
             /\ objectsToUpdate' # <<>>
             /\ objectsToUpdate'[Len(objectsToUpdate')] = nextId
             /\ nextId \in sceneMeshes'
             /\ nextId \in worldBodies'
             /\ bodyPos'[nextId] = meshPos'[nextId]
             /\ bodyPos'[nextId] \in SpawnPositions
             /\ nextId \in listeners']_vars

\* a spawn into a full pool and a spawn into an empty pool have both
\* happened while the loop runs
C17_SpawnedIntoFullAndEmpty ==
    /\ log.op \in SpawnOps
    /\ LoopState = "Running"
    /\ Len(objectsToUpdate) = 1
    /\ nextId > maxObjects + 2

(***************************************************************************)
(* The page with its parameter panel: the lifecycle hooks, the frames and  *)
(* every controller of the panel, the spawn and reset buttons left alone.  *)
(***************************************************************************)
NextPanel ==
    \/ NgAfterViewInit
    \/ Tick
    \/ NgOnDestroy
    \/ GravityYChange
    \/ FrictionChange
    \/ RestitutionChange
    \/ TimeScaleChange
    \/ ToggleWind
    \/ WindVectorChange
    \/ WindNoiseToggle
    \/ ToggleHurricane
    \/ HurricaneSpeedChange
    \/ ToggleVortex
    \/ VortexStrengthChange

SpecPanel == Init /\ [][NextPanel]_vars

(***************************************************************************)
(* The force fields at work: the sandbox is running, its first tick done,  *)
(* with two objects in the pool, the older one anywhere in FieldPositions  *)
(* and the younger one inside the vortex radius; from there frames run and *)
(* the time scale, the wind and the vortex are edited in the panel.        *)
(***************************************************************************)
InitFields ==
    /\ canvasPresent = TRUE
    /\ hook = "viewInit"
    /\ gui = "open"
    /\ objectsToUpdate = <<1, 2>>
    /\ worldBodies = {floorBody, 1, 2}
    /\ sceneMeshes = {1, 2}
    /\ listeners = {1, 2}
    /\ \E position \in FieldPositions :
          bodyPos = (1 :> position) @@ (2 :> InsideVortex)
    /\ meshPos = bodyPos
    /\ bodyQuat = (1 :> identity) @@ (2 :> identity)
    /\ meshQuat = bodyQuat
    /\ meshScale = (1 :> spawnScale) @@ (2 :> spawnScale)
    /\ tweens = <<>>
    /\ impacts = 0
    /\ clonedMaterials = {1, 2}
    /\ nextId = 3
    /\ pendingFrames = {1}
    /\ animationId = 1
    /\ nextFrameId = 2
    /\ ticks = 1
    /\ consoleErrors = 0
    /\ uncaught = FALSE
    /\ simulation = initPhysicsWorld(DefaultSimulation)
    /\ panel = createPhysicsGui(simulation)
    /\ edits = 0
    /\ log = [op |-> "new", arg |-> 0, evicted |-> <<>>, stepped |-> NoStep,
              repeat |-> FALSE, trace |-> <<>>, steps |-> <<>>,
              applied |-> <<>>, turned |-> <<>>, collisions |-> <<>>]
    /\ viewer = NewViewer

NextFields ==
    \/ Tick
    \/ TimeScaleChange
    \/ ToggleWind
    \/ WindVectorChange
    \/ WindNoiseToggle
    \/ ToggleVortex
    \/ VortexStrengthChange

SpecFields == InitFields /\ [][NextFields]_vars

\* the last handler ran tick: a frame, or ngAfterViewInit with a canvas
TickRan == log.op = "tick" \/ (log.op = "ngAfterViewInit" /\ log.trace # <<>>)

\* C18: while the panel is open every value it holds equals the value the
\* simulation uses, after every edit and from the panel's creation on,
\* when the simulation still has its defaults.
C18_PanelMatchesSimulation ==
    gui = "open" =>
        /\ panel.gravityY = simulation.gravityY
        /\ panel.friction = simulation.friction
        /\ panel.restitution = simulation.restitution
        /\ panel.timeScale = simulation.timeScale
        /\ panel.windEnabled = simulation.windEnabled
        /\ <<panel.windX, panel.windY, panel.windZ>> = simulation.windVector
        /\ panel.useNoise = simulation.windUseNoise
        /\ panel.hurricaneEnabled = simulation.hurricaneEnabled
        /\ panel.hurricaneSpeed = simulation.hurricaneSpeedFactor
        /\ panel.vortexEnabled = simulation.vortexEnabled
        /\ panel.vortexStrength = simulation.vortexStrength
        /\ edits = 0 => simulation = initPhysicsWorld(DefaultSimulation)

\* two wind sliders other than Wind X have been moved
C18_WindYAndZEdited ==
    /\ gui = "open"
    /\ edits >= 2
    /\ panel.windY # 0
    /\ panel.windZ # 0

\* C13: every tick steps the world exactly once, with fixed step 1/60, at
\* most 3 substeps and the raw frame time multiplied by the time scale;
\* for every raw frame time the delta at time scale 2 is twice the delta
\* at time scale 1.
C13_StepOncePerTick ==
    /\ TickRan =>
          log.steps = <<[dt |-> <<1, 60>>,
                         timeSinceLastCalled |-> log.arg * simulation.timeScale,
                         maxSubSteps |-> 3]>>
    /\ ~ TickRan => log.steps = <<>>
    /\ \A D \in RawDeltas : scaledDelta(D, 200) = 2 * scaledDelta(D, 100)

\* a frame of 16 ms has been stepped at time scale 2
C13_FrameAtDoubleSpeed ==
    /\ log.op = "tick"
    /\ simulation.timeScale = 200
    /\ log.steps[1].timeSinceLastCalled = 3200

(***************************************************************************)
(* What the last tick applied to body e, by field and in total.            *)
(***************************************************************************)
AppliedTo(e, fields) ==
    LET hit(a) == a.body = e /\ a.field \in fields
    IN SelectSeq(log.applied, hit)

RECURSIVE TotalForce(_)
TotalForce(calls) ==
    IF calls = <<>>
    THEN <<0, 0, 0>>
    ELSE LET rest == TotalForce(Tail(calls))
         IN [a \in 1..3 |-> Head(calls).force[a] + rest[a]]

\* the square of the horizontal distance of pos from the vortex axis
SquareXZ(pos) == pos[1] * pos[1] + pos[3] * pos[3]

StrictlyInsideVortex(pos) == SquareXZ(pos) > 0 /\ SquareXZ(pos) < 40 * 40

\* C14: after a tick, every surviving body has received the wind force
\* once if the wind is enabled and the vortex force once if the vortex is
\* enabled and the body is strictly inside the vortex radius, nothing
\* else, so that the total is their sum, and nothing at all when both
\* fields are disabled; a removed body has received nothing.
C14_FieldForcesSummed ==
    log.op = "tick" =>
        \A e \in DOMAIN log.stepped :
            LET wind == AppliedTo(e, {"wind"})
                vortex == AppliedTo(e, {"vortex"})
                all == AppliedTo(e, {"wind", "vortex"})
                windForces ==
                    IF simulation.windUseNoise
                    THEN {[a \in 1..3 |-> simulation.windVector[a] * (50 + n)] :
                             n \in -100..100}
                    ELSE {[a \in 1..3 |-> simulation.windVector[a] * 100]}
            IN IF e \in Range(objectsToUpdate)
               THEN /\ Len(wind) = (IF simulation.windEnabled THEN 1 ELSE 0)
                    /\ Len(vortex) =
                          (IF simulation.vortexEnabled
                              /\ StrictlyInsideVortex(bodyPos[e])
                           THEN 1 ELSE 0)
                    /\ Len(all) = Len(wind) + Len(vortex)
                    /\ \A i \in 1..Len(wind) : wind[i].force \in windForces
                    /\ \A i \in 1..Len(vortex) :
                          vortex[i].force = vortexForce(bodyPos[e])
                    /\ TotalForce(all) =
                          [a \in 1..3 |-> TotalForce(wind)[a] + TotalForce(vortex)[a]]
                    /\ (~ simulation.windEnabled /\ ~ simulation.vortexEnabled)
                          => TotalForce(all) = <<0, 0, 0>>
               ELSE all = <<>>

\* a tick has applied both the wind and the vortex to one body
C14_WindAndVortexOnOneBody ==
    /\ log.op = "tick"
    /\ \E e \in Range(objectsToUpdate) :
          /\ Len(AppliedTo(e, {"wind"})) = 1
          /\ Len(AppliedTo(e, {"vortex"})) = 1
          /\ TotalForce(AppliedTo(e, {"wind", "vortex"})) = <<-2000, 4375, 7500>>

\* C15: with the vortex enabled, a tick applies the vortex force to a
\* surviving body exactly when its horizontal distance d from the axis
\* satisfies 0 < d < vortexRadius; on the axis, on the radius and beyond
\* it nothing is applied, and the distance the force divides by is never
\* zero.
C15_VortexInsideRadiusOnly ==
    /\ (log.op = "tick" /\ simulation.vortexEnabled) =>
          \A e \in Range(objectsToUpdate) :
              /\ (AppliedTo(e, {"vortex"}) # <<>>) = StrictlyInsideVortex(bodyPos[e])
              /\ AppliedTo(e, {"vortex"}) # <<>> =>
                    hypot(bodyPos[e][1], bodyPos[e][3]) > 0
    /\ \A pos \in {OnAxis, OnVortexRadius, OnBounds, NearBounds} : ~ inVortex(pos)
    /\ inVortex(InsideVortex)

\* one tick with the vortex on has left a body on the axis or on the
\* radius without force and given the body inside its force
C15_OnEdgeSparedInsidePushed ==
    /\ log.op = "tick"
    /\ simulation.vortexEnabled
    /\ \E e \in Range(objectsToUpdate) :
          /\ bodyPos[e] \in {OnAxis, OnVortexRadius}
          /\ AppliedTo(e, {"vortex"}) = <<>>
    /\ \E e \in Range(objectsToUpdate) :
          /\ bodyPos[e] = InsideVortex
          /\ AppliedTo(e, {"vortex"}) # <<>>

\* C16: no tick applies a force to a body of mass 0, and the wind and
\* vortex branches of tick leave every body of mass 0 in the world alone
\* under the fields as they are set.
C16_NoForceOnStaticBody ==
    /\ \A i \in 1..Len(log.applied) : mass(log.applied[i].body) > 0
    /\ \A b \in worldBodies :
          mass(b) = 0 =>
              \A n \in NoiseSamples :
                  applyVortex(applyWind(Cur, b, n), b).applied = <<>>

\* a tick with wind and vortex both on has pushed the dynamic bodies while
\* the floor is in the world
C16_FieldsOnFloorInWorld ==
    /\ log.op = "tick"
    /\ simulation.windEnabled
    /\ simulation.vortexEnabled
    /\ floorBody \in worldBodies
    /\ Len(log.applied) >= 3

(***************************************************************************)
(* The sub-steps of the last handler, by position in its trace.            *)
(***************************************************************************)
Steps == 1..Len(log.trace)

KindAt(i) == log.trace[i][1]

ObjectAt(i) == log.trace[i][2]

SweepKinds == {"killCheck", "removeObject"}

\* the order of an object's sub-steps within its turn of the pass
Rank(kind) ==
    IF kind = "sync" THEN 1
    ELSE IF kind = "killCheck" THEN 2
    ELSE 3

\* C19 as stated: within a tick the world step precedes every sync, every
\* sync precedes every kill-zone test and removal, every kill-zone test
\* and removal precedes every force application, and render is last.
C19_PhaseAfterPhase ==
    log.op = "tick" =>
        \A i, j \in Steps :
            /\ (KindAt(i) = "deltaTime" /\ KindAt(j) = "world.step") => i < j
            /\ (KindAt(i) = "world.step" /\ KindAt(j) = "sync") => i < j
            /\ (KindAt(i) = "sync" /\ KindAt(j) \in SweepKinds) => i < j
            /\ (KindAt(i) \in SweepKinds /\ KindAt(j) = "applyForce") => i < j
            /\ KindAt(i) = "render" => i = Len(log.trace)

\* C19, amended: a tick scales the delta, steps the world, then passes
\* once over the objects in pool order, doing for each object in turn its
\* sync, then its kill-zone test, then its removal or its force
\* applications, all before the next object's sync; updateHurricane,
\* controls.update and render follow, render last.  A removed object gets
\* no force.
C19_ObjectAfterObject ==
    log.op = "tick" =>
        LET n == Len(log.trace)
            Pass == 4..(n - 3)
        IN /\ n >= 6
           /\ SubSeq(log.trace, 2, 3) = <<<<"deltaTime", 0>>, <<"world.step", 0>>>>
           /\ SubSeq(log.trace, n - 2, n) =
                 <<<<"updateHurricane", 0>>, <<"controls.update", 0>>,
                   <<"render", 0>>>>
           /\ \A i \in Pass :
                 KindAt(i) \in {"sync", "killCheck", "removeObject", "applyForce"}
           /\ \A i, j \in Pass :
                 i < j =>
                    /\ ObjectAt(i) <= ObjectAt(j)
                    /\ ObjectAt(i) = ObjectAt(j) =>
                          /\ Rank(KindAt(i)) <= Rank(KindAt(j))
                          /\ Rank(KindAt(i)) = Rank(KindAt(j)) =>
                                KindAt(i) = "applyForce" /\ KindAt(j) = "applyForce"
           /\ \A e \in DOMAIN log.stepped :
                 /\ Cardinality({i \in Pass : log.trace[i] = <<"sync", e>>}) = 1
                 /\ Cardinality({i \in Pass : log.trace[i] = <<"killCheck", e>>}) = 1

\* in one tick the older object got its forces before the younger one was
\* synced, and the younger one was then removed
C19_ForceBeforeNextSync ==
    /\ log.op = "tick"
    /\ \E i, j, k \in Steps :
          /\ i < j /\ j < k
          /\ KindAt(i) = "applyForce"
          /\ KindAt(j) = "sync"
          /\ KindAt(k) = "removeObject"

\* C20 as stated: a tick asks for the next frame only after its step,
\* sync, sweep, force and render sub-steps.
C20_RequestAfterRender ==
    TickRan =>
        \A i, j \in Steps :
            (KindAt(i) = "requestAnimationFrame" /\ KindAt(j) # "requestAnimationFrame")
                => j < i

\* C20, amended: a tick asks for the next frame once, as its first
\* sub-step, ahead of its step, sync, sweep, force and render sub-steps,
\* and it ends with render while that frame is still waiting in the
\* host's queue; the next tick is a later callback of the host.
C20_RequestFirstRenderLast ==
    TickRan =>
        /\ Head(log.trace) = <<"requestAnimationFrame", 0>>
        /\ \A i \in Steps : KindAt(i) = "requestAnimationFrame" => i = 1
        /\ log.trace[Len(log.trace)] = <<"render", 0>>
        /\ pendingFrames = {animationId}

\* a frame callback that removed an object has run to render
C20_FrameRanToRender ==
    /\ log.op = "tick"
    /\ Head(log.trace) = <<"requestAnimationFrame", 0>>
    /\ \E i \in Steps : KindAt(i) = "removeObject"
    /\ log.trace[Len(log.trace)] = <<"render", 0>>

(***************************************************************************)
(* The sandbox with a failing collision listener: a frame in which         *)
(* world.step calls playHitSound on a pooled body and the call throws,     *)
(* next to the lifecycle hooks, the sphere button and the frames whose     *)
(* listeners return.                                                       *)
(***************************************************************************)
TickListenerThrows ==
    /\ listeners # {}
    /\ Frame("throws")

NextFault ==
    \/ NgAfterViewInit
    \/ OnCreateSphere
    \/ Tick
    \/ TickListenerThrows
    \/ NgOnDestroy

SpecFault == Init /\ [][NextFault]_vars

\* the listener threw during the last handler
ListenerThrew == \E i \in Steps : KindAt(i) = "playHitSound throws"

\* C12: a tick in which a collision listener throws still syncs every
\* object that was live at its start, tests each against the kill zone
\* and renders, the exception staying inside the listener; and the next
\* frame is requested, so later ticks run.
C12_ListenerFaultContained ==
    (log.op = "tick" /\ ListenerThrew) =>
        /\ ~ uncaught
        /\ \A e \in DOMAIN log.stepped :
              /\ \E i \in Steps : log.trace[i] = <<"sync", e>>
              /\ \E i \in Steps : log.trace[i] = <<"killCheck", e>>
        /\ log.trace[Len(log.trace)] = <<"render", 0>>
        /\ pendingFrames = {animationId}

(***************************************************************************)
(* removeObject called from outside the component's own handlers, on any   *)
(* entry ever created, pooled or already removed.                          *)
(***************************************************************************)
RemoveObjectCall ==
    /\ \E entry \in Spawned :
          LET after == removeObject(Cur, entry)
          IN /\ Install(after)
             /\ log' = Entry("removeObject", entry, after, NoStep)
    /\ UNCHANGED <<canvasPresent, hook, gui, nextId, pendingFrames,
                   animationId, nextFrameId, ticks, consoleErrors,
                   panel, edits>>

NextEvict ==
    \/ Next
    \/ RemoveObjectCall

SpecEvict == Init /\ [][NextEvict]_vars

\* C8: removeObject of an entry that is not in the pool changes nothing
\* and does not throw, and removing an entry twice leaves the state that
\* removing it once leaves.
C8_EvictAbsentIsNoOp ==
    \A entry \in Spawned :
        LET once == removeObject(Cur, entry)
        IN /\ entry \notin Range(objectsToUpdate) => once = Cur
           /\ removeObject(once, entry) = once
           /\ ~ once.err

\* the same entry has been removed twice in a row while others stay pooled
C8_RemovedTwice ==
    /\ log.op = "removeObject"
    /\ log.repeat
    /\ log.evicted = <<>>
    /\ objectsToUpdate # <<>>

(***************************************************************************)
(* The object pass and the objects it evicts.                              *)
(***************************************************************************)
\* the objects the last handler synced, in the order of the syncs
Visited ==
    LET IsSync(e) == e[1] = "sync"
        syncs == SelectSeq(log.trace, IsSync)
    IN [i \in 1..Len(syncs) |-> syncs[i][2]]

\* the positions in the trace of the sub-steps of one kind on one object
StepsOf(kind, object) ==
    {i \in 1..Len(log.trace) : log.trace[i] = <<kind, object>>}

\* C21: the object pass of a tick visits every object that was in the pool
\* when the tick began exactly once and in pool order, whatever the pass
\* evicts on its way; an object the tick evicts was synced before it was
\* removed and has no force applied to it in that tick.
C21_PassVisitsEachOnce ==
    [][log'.op = "tick" =>
          /\ Visited' = objectsToUpdate
          /\ \A object \in Range(log'.evicted) :
                /\ \E s \in StepsOf("sync", object)', r \in StepsOf("removeObject", object)' :
                      s < r
                /\ StepsOf("applyForce", object)' = {}
                /\ \A a \in Range(log'.applied) : a.body # object]_vars

\* a tick with the wind on evicted two neighbours of the list
C21_NeighboursEvictedInWind ==
    /\ log.op = "tick"
    /\ simulation.windEnabled
    /\ Len(log.evicted) = 2
    /\ Visited = log.evicted


(***************************************************************************)
(* Meshes follow bodies.                                                   *)
(***************************************************************************)
\* C22: when a tick has run, the mesh of every pool entry has the position
\* and the orientation of its body, and the body has the position and the
\* orientation world.step left it with: the tick copied from body to mesh
\* and never from mesh to body.
C22_MeshFollowsBody ==
    TickRan =>
        \A e \in Range(objectsToUpdate) :
            /\ meshPos[e] = bodyPos[e]
            /\ meshQuat[e] = bodyQuat[e]
            /\ bodyPos[e] = log.stepped[e]
            /\ bodyQuat[e] = log.turned[e]

\* a frame moved and tumbled a body that stays in the pool, and left
\* another one where it was spawned
C22_MovedAndTumbled ==
    /\ log.op = "tick"
    /\ \E e \in Range(objectsToUpdate) :
          /\ bodyPos[e] = NearBounds
          /\ meshPos[e] = NearBounds
          /\ meshQuat[e] = Tumbled
    /\ \E e \in Range(objectsToUpdate) :
          /\ meshPos[e] \in SpawnPositions
          /\ meshQuat[e] = identity


(***************************************************************************)
(* What a tick leaves alone.                                               *)
(***************************************************************************)
\* C23: a tick changes none of the controls: the time scale, gravity,
\* friction, restitution, the wind flag, vector and noise flag, the vortex
\* flag and strength and the hurricane flag and speed are after a frame
\* what they were before it, also when noise scaled the wind force.
C23_TickKeepsControls ==
    [][log'.op = "tick" => simulation' = simulation]_vars

\* a frame applied a wind force that noise had scaled to one and a half
\* times or to minus one half of the wind vector
C23_NoiseScaledWind ==
    /\ log.op = "tick"
    /\ simulation.windEnabled /\ simulation.windUseNoise
    /\ \E a \in Range(log.applied) :
          /\ a.field = "wind"
          /\ a.force # [c \in 1..3 |-> simulation.windVector[c] * 100]


(***************************************************************************)
(* The range of the noise factor.                                          *)
(***************************************************************************)
\* the wind forces the last handler applied
WindApplied == {a \in Range(log.applied) : a.field = "wind"}

dot(u, v) == u[1] * v[1] + u[2] * v[2] + u[3] * v[3]

\* C24 as stated: in noise mode the factor on the wind vector lies in
\* [0, 1.5], so that no applied wind force points against the wind vector.
C24_WindNeverReversed ==
    TickRan =>
        \A a \in WindApplied :
            /\ dot(a.force, simulation.windVector) >= 0
            /\ \E k \in 0..150 :
                  a.force = [c \in 1..3 |-> simulation.windVector[c] * k]

\* C24: in noise mode the factor on the wind vector is 0.5 + n with n the
\* half sum of a sine and a cosine, so it lies in [-0.5, 1.5]: an applied
\* wind force is the wind vector scaled by a factor in that range, and
\* points against the wind vector when the factor is negative; without
\* noise the factor is 1.
C24_FactorInRange ==
    TickRan =>
        \A a \in WindApplied :
            \E k \in -50..150 :
                /\ a.force = [c \in 1..3 |-> simulation.windVector[c] * k]
                /\ ~ simulation.windUseNoise => k = 100

\* one frame applied the wind vector reversed at half strength to one body
\* and at one and a half times its strength to another
C24_ReversedAndAmplified ==
    /\ log.op = "tick"
    /\ simulation.windUseNoise
    /\ simulation.windVector # <<0, 0, 0>>
    /\ \E a, b \in WindApplied :
          /\ a.force = [c \in 1..3 |-> simulation.windVector[c] * (-50)]
          /\ b.force = [c \in 1..3 |-> simulation.windVector[c] * 150]


(***************************************************************************)
(* The shape of the vortex force.                                          *)
(***************************************************************************)
\* the vortex forces the last handler applied
VortexApplied == {a \in Range(log.applied) : a.field = "vortex"}

\* vortexStrength * (1 - d / vortexRadius) in thousandths, at pos
VortexBase(pos) ==
    (simulation.vortexStrength * (vortexRadius * 10 - hypot(pos[1], pos[3])) * 1000)
        \div (vortexRadius * 10)

\* C25: a vortex force is applied to a body at a distance d from the axis
\* with 0 < d < vortexRadius; its horizontal part is perpendicular to the
\* body's horizontal radius vector and has the magnitude vortexStrength *
\* (1 - d / vortexRadius); its vertical part is 0.35 times that magnitude
\* and is not negative.
C25_VortexForceShape ==
    TickRan =>
        \A a \in VortexApplied :
            LET pos == bodyPos[a.body]
                f == a.force
            IN /\ StrictlyInsideVortex(pos)
               /\ f[1] * pos[1] + f[3] * pos[3] = 0
               /\ (f[1] \div 10) * (f[1] \div 10) + (f[3] \div 10) * (f[3] \div 10)
                     = (VortexBase(pos) \div 10) * (VortexBase(pos) \div 10)
               /\ f[2] * 100 = 35 * VortexBase(pos)
               /\ f[2] >= 0

\* a frame applied the vortex at full strength 80 to two bodies on either
\* side of the axis
C25_SwirlOnBothSides ==
    /\ log.op = "tick"
    /\ simulation.vortexStrength = 80
    /\ \E a, b \in VortexApplied :
          /\ bodyPos[a.body] = InsideVortex
          /\ a.force = <<-32000, 14000, 24000>>
          /\ bodyPos[b.body] = AcrossVortex
          /\ b.force = <<-24000, 14000, -32000>>


(***************************************************************************)
(* The materials cloned at spawn.                                          *)
(***************************************************************************)
\* C28 as stated: a material cloned at spawn and not disposed belongs to an
\* object that is still in the pool, so that there are never more than
\* maxObjects of them.
C28_MaterialsDisposedWithObject ==
    /\ clonedMaterials \subseteq Range(objectsToUpdate)
    /\ Cardinality(clonedMaterials) <= maxObjects


(***************************************************************************)
(* Reset among edits: the sandbox with its panel, spawns and the "Reset    *)
(* world" button; the loop runs from ngAfterViewInit on.                   *)
(***************************************************************************)
NextReset ==
    \/ NgAfterViewInit
    \/ OnCreateSphere
    \/ OnReset
    \/ GravityYChange
    \/ TimeScaleChange
    \/ ToggleWind
    \/ WindVectorChange
    \/ ToggleVortex

SpecReset == Init /\ [][NextReset]_vars

\* C29: "Reset world" takes the pooled objects out of the pool, the scene
\* and the world and changes nothing else: the controls and the panel keep
\* their values, the floor stays in the world, the requested frame stays
\* requested and the loop stays Running.
C29_ResetKeepsSettings ==
    [][log'.op = "reset" =>
          /\ simulation' = simulation
          /\ panel' = panel
          /\ worldBodies' = worldBodies \ Range(objectsToUpdate)
          /\ floorBody \in worldBodies'
          /\ sceneMeshes' = sceneMeshes \ Range(objectsToUpdate)
          /\ pendingFrames' = pendingFrames
          /\ animationId' = animationId
          /\ LoopState' = "Running"
          /\ gui' = gui /\ hook' = hook]_vars

\* a reset of a pool of two, after two edits of the controls
C29_ResetAfterEdits ==
    /\ log.op = "reset"
    /\ Len(log.evicted) = 2
    /\ edits = 2
    /\ simulation # initPhysicsWorld(DefaultSimulation)
    /\ LoopState = "Running"


(***************************************************************************)
(* Impacts: frames in which a contact begins, and gsap's ticker, which     *)
(* runs on its own frame callback between the frames of the sandbox.       *)
(***************************************************************************)
\* a frame in whose world.step one contact begins; at the impact speeds of
\* ImpactVelocities a body moves less than a tenth of a unit in a step
TickCollide ==
    /\ impacts < MaxImpacts
    /\ \E frame \in pendingFrames :
          /\ requestAnimationFrame({frame})
          /\ \E contact \in Contacts(Cur), rawDeltaTime \in FrameDeltas,
                noise \in Noises(Cur) :
                LET after == tick([Cur EXCEPT !.contacts = <<contact>>],
                                  Unmoved(Cur), rawDeltaTime, noise, "returns")
                IN /\ Install(after)
                   /\ log' = Entry("tick", rawDeltaTime, after, Unmoved(Cur))
    /\ ticks' = ticks + 1
    /\ UNCHANGED <<canvasPresent, hook, gui, nextId, consoleErrors, panel,
                   edits>>

\* one pass of gsap's ticker over the running tweens, oldest first: the k
\* oldest reach their end values and leave, the others render a value on
\* their way; all tweens last as long, so an older one ends no later than
\* a younger one
RECURSIVE render(_, _, _)
render(st, k, i) ==
    IF i > Len(st.tweens)
    THEN [st EXCEPT !.tweens = SubSeq(@, k + 1, Len(@))]
    ELSE LET tween == st.tweens[i]
             value == IF i <= k
                      THEN tween.to
                      ELSE [a \in 1..3 |-> (tween.from[a] + tween.to[a]) \div 2]
         IN render([st EXCEPT !.scale[tween.mesh] = value], k, i + 1)

GsapTick ==
    /\ tweens # <<>>
    /\ \E k \in 0..Len(tweens) :
          LET after == render(Cur, k, 1)
          IN /\ Install(after)
             /\ log' = Entry("gsapTick", k, after, NoStep)
    /\ UNCHANGED <<canvasPresent, hook, gui, nextId, pendingFrames,
                   animationId, nextFrameId, ticks, consoleErrors, panel,
                   edits>>

NextImpact ==
    \/ NgAfterViewInit
    \/ OnCreateSphere
    \/ TickCollide
    \/ GsapTick

SpecImpact == Init /\ [][NextImpact]_vars

\* C26 as stated: a call of a pooled body's collision listener with an
\* impact above 1.2 plays the sound and starts the squash on that body's
\* own mesh, whatever the body it hit; a call with an impact of 1.2 or less
\* does neither.
C26_SquashOnOwnMesh ==
    \A i \in 1..Len(log.collisions) :
        LET c == log.collisions[i]
        IN IF c.impact > 12
           THEN c.sound /\ c.squashed = c.target
           ELSE ~ c.sound /\ c.squashed = undefined

\* C27 as stated: when no squash animation is running, the mesh of every
\* pooled object has the scale it was given at spawn.
C27_ScaleRestored ==
    tweens = <<>> =>
        \A e \in Range(objectsToUpdate) : meshScale[e] = spawnScale


(***************************************************************************)
(* The handlers of the imported-models viewer.                             *)
(***************************************************************************)
\* ngAfterViewInit: initThree, initLoaders, loadModel(currentModelKey),
\* startLoop, whose first tick requests the next frame
ModelsNgAfterViewInit ==
    /\ viewer.hook = "constructed"
    /\ viewer' = [loadModel(viewer, viewer.currentModelKey) EXCEPT
                      !.hook = "viewInit", !.frameRequested = TRUE]
    /\ UNCHANGED sandbox

\* a requested frame runs: tick requests the next one, updates the mixer
\* and renders
ModelsTick ==
    /\ viewer.frameRequested
    /\ viewer.frames < MaxTicks
    /\ viewer' = [viewer EXCEPT !.frames = @ + 1]
    /\ UNCHANGED sandbox

\* GLTFLoader finishes a load and calls onLoad
ModelsLoaded ==
    /\ \E load \in viewer.loads : viewer' = onLoad(viewer, load)
    /\ UNCHANGED sandbox

\* GLTFLoader gives a load up and calls onError
ModelsLoadError ==
    /\ \E load \in viewer.loads : viewer' = onError(viewer, load)
    /\ UNCHANGED sandbox

\* the drop-down of a panel that exists: onChange calls loadModel(nextKey)
ModelsSelect ==
    /\ viewer.panels # {}
    /\ viewer.nextLoad <= MaxLoads
    /\ \E nextKey \in ModelKeys \ {viewer.currentModelKey} :
          viewer' = loadModel(viewer, nextKey)
    /\ UNCHANGED sandbox

\* ngOnDestroy: cancel the requested frame, dispose controls and renderer,
\* this.gui?.destroy()
ModelsNgOnDestroy ==
    /\ viewer.hook # "destroyed"
    /\ viewer' = [viewer EXCEPT !.hook = "destroyed",
                                !.frameRequested = FALSE,
                                !.panels = @ \ {viewer.gui}]
    /\ UNCHANGED sandbox

NextViewer ==
    \/ ModelsNgAfterViewInit
    \/ ModelsTick
    \/ ModelsLoaded
    \/ ModelsLoadError
    \/ ModelsSelect
    \/ ModelsNgOnDestroy

SpecViewer == Init /\ [][NextViewer]_vars

\* C30 as stated: once the viewer is torn down no debug panel exists, none
\* is created later and no model is added to the scene later, also when a
\* load begun before the teardown completes after it.
C30_QuietAfterTeardown ==
    [][viewer'.hook = "destroyed" =>
          /\ viewer'.panels = {}
          /\ viewer.hook = "destroyed" =>
                viewer'.sceneModels \subseteq viewer.sceneModels]_vars

====
